---------------------------- MODULE Spec2Model ----------------------------
(***************************************************************************)
(* StatsBomb -> Football CDF -> JSON-LD.                                   *)
(*                                                                         *)
(* The normalizer (transform_to_football_cdf.py) turns a raw event         *)
(* sequence and a two-team lineup into a match sheet, a flat event list    *)
(* and a match meta record; the graph builder (football_cdf_to_jsonld.py)  *)
(* turns the three documents into a set of triples.                        *)
(*                                                                         *)
(* Values.  Identifiers are positive integers; Null (0) stands for         *)
(* Python's None / an absent key of an identifier-valued field, NoneS for  *)
(* None / an absent key of a string-valued field.  str() is the operator   *)
(* Str, which yields a string.  A match clock 'HH:MM:SS.mmm' is the tuple  *)
(* <<hh, mm, ss, mmm>> of its four numbers.                                *)
(***************************************************************************)
EXTENDS Integers, Sequences, FiniteSets, TLC

VARIABLES
    pc,        \* position of the run: "start", "sheet", "events", "meta", "graph", "failed"
    events,    \* the raw event sequence (load(events_path))
    lineup,    \* the two-element lineup array (load(lineup_path))
    sheet,     \* result of build_match_sheet
    rows,      \* result of build_event_cdf
    meta,      \* result of build_match_meta
    graph,     \* result of build_graph
    label,     \* slug: the free-text label
    slug1,     \* slug: slug(label)
    slug2,     \* slug: slug(slug(label))
    batch,     \* batch mode: the matches of the matches file, in order
    bi,        \* batch mode: index of the next match
    written,   \* batch mode: indices of the matches whose output was written
    bstate     \* batch mode: "idle", "running", "done", "crashed"

vars == <<pc, events, lineup, sheet, rows, meta, graph,
          label, slug1, slug2, batch, bi, written, bstate>>

----------------------------------------------------------------------------
(* Bounds of the model *)

MaxEvents == 3
MaxLabelLen == 3
MaxMatches == 3

----------------------------------------------------------------------------
(* Values *)

Null == 0
NoneS == "<None>"

Truthy(x) == x # Null
TruthyS(s) == s # NoneS /\ s # ""

Digits == <<"0", "1", "2", "3", "4", "5", "6", "7", "8", "9">>

Str(x) == IF x = Null THEN "None"
          ELSE IF x < 10 THEN Digits[x + 1]
          ELSE Digits[(x \div 10) + 1] \o Digits[(x % 10) + 1]

Lower(s) ==
    CASE s = "Shot" -> "shot"
      [] s = "Pass" -> "pass"
      [] s = "Carry" -> "carry"
      [] s = "Substitution" -> "substitution"
      [] s = "Card" -> "card"
      [] s = "Foul Committed" -> "foul committed"
      [] s = "Bad Behaviour" -> "bad behaviour"
      [] s = "Starting XI" -> "starting xi"
      [] s = "STARTING XI" -> "starting xi"
      [] s = "Half Start" -> "half start"
      [] s = "Half End" -> "half end"
      [] s = "HALF END" -> "half end"
      [] s = "Own Goal For" -> "own goal for"
      [] s = "Own Goal" -> "own goal"
      [] s = "Goal" -> "goal"
      [] s = "Saved" -> "saved"
      [] s = "Incomplete" -> "incomplete"
      [] s = "Out" -> "out"
      [] s = "Yellow Card" -> "yellow card"
      [] s = "Red Card" -> "red card"
      [] OTHER -> s

BoundedSeq(S, n) == UNION {[1..k -> S] : k \in 0..n}

----------------------------------------------------------------------------
(* period_name, match_clock *)

period_name(p) ==
    CASE p = 1 -> "first half"
      [] p = 2 -> "second half"
      [] p = 3 -> "first half extratime"
      [] p = 4 -> "second half extratime"
      [] p = 5 -> "shootout"
      [] OTHER -> "unknown"

match_clock(ev) ==
    LET tot_sec == ev.minute * 60 + ev.second
        hh == tot_sec \div 3600
        rem == tot_sec % 3600
    IN  <<hh, rem \div 60, rem % 60, ev.frac>>

is_shot_goal(ev) == ev.type = "Shot" /\ ev.shot.outcome = "Goal"

\* is_goal(ev) raises when a Shot has no shot object or no outcome object
is_goal_raises(ev) ==
    ev.type = "Shot" /\ (~ev.shot.present \/ ev.shot.outcome = NoneS)


----------------------------------------------------------------------------
(* build_match_sheet: assist lookup *)

KeyIds == 0..9
TeamIds == 1..3
RawPeriods == 1..6

EmptyAssist == [raised |-> FALSE, af |-> [k \in KeyIds |-> Null]]

\* for ev in events: if Pass and pass.goal_assist: assist_for[sid] = ev.player.id
AssistFromPass(acc, ev) ==
    IF ev.type = "Pass" /\ ev.pass.present /\ ev.pass.goal_assist
       /\ Truthy(ev.pass.assisted_shot_id)
    THEN IF ev.player = Null
         THEN [acc EXCEPT !.raised = TRUE]
         ELSE [acc EXCEPT !.af[ev.pass.assisted_shot_id] = ev.player]
    ELSE acc

\* next((p for p in events if p["id"] == kp), None)
FirstWithId(evs, kp) ==
    LET hits == {i \in 1..Len(evs) : evs[i].id = kp}
    IN  IF hits = {} THEN 0
        ELSE CHOOSE i \in hits : \A j \in hits : i <= j

\* "if kp and kp not in assist_for"
KeyPassGuard(acc, ev, kp) == Truthy(kp) /\ acc.af[kp] = Null

\* for ev in events: if Shot: kp = shot.key_pass_id; if kp and kp not in assist_for: ...
AssistFromKeyPass(acc, ev, evs) ==
    IF ev.type = "Shot"
    THEN LET kp == IF ev.shot.present THEN ev.shot.key_pass_id ELSE Null
         IN  IF KeyPassGuard(acc, ev, kp)
             THEN LET i == FirstWithId(evs, kp)
                  IN  IF i = 0 THEN acc
                      ELSE IF evs[i].player = Null
                           THEN [acc EXCEPT !.raised = TRUE]
                           ELSE [acc EXCEPT !.af[ev.id] = evs[i].player]
             ELSE acc
    ELSE acc

RECURSIVE AssistLoop1(_, _, _)
AssistLoop1(acc, evs, i) ==
    IF i > Len(evs) \/ acc.raised THEN acc
    ELSE AssistLoop1(AssistFromPass(acc, evs[i]), evs, i + 1)

RECURSIVE AssistLoop2(_, _, _)
AssistLoop2(acc, evs, i) ==
    IF i > Len(evs) \/ acc.raised THEN acc
    ELSE AssistLoop2(AssistFromKeyPass(acc, evs[i], evs), evs, i + 1)

assist_for(evs) == AssistLoop2(AssistLoop1(EmptyAssist, evs, 1), evs, 1)

----------------------------------------------------------------------------
(* build_match_sheet: goals and running score *)

home_id(lu) == lu[1].team_id
away_id(lu) == lu[2].team_id

EmptyScore ==
    [raised |-> FALSE,
     score_by_team |-> [t \in TeamIds |-> 0],
     goals_by_period_team |-> [p \in RawPeriods |-> [t \in TeamIds |-> 0]],
     running_score |-> <<>>]

\* mutant of Snapshot: the snapshot taken before the goal is credited
SnapshotBefore(acc, sc, lu) ==
    [home |-> acc.score_by_team[home_id(lu)], away |-> acc.score_by_team[away_id(lu)]]
\* "score": {"home": score_by_team[home_id], "away": score_by_team[away_id]}
Snapshot(acc, sc, lu) ==
    [home |-> sc[home_id(lu)], away |-> sc[away_id(lu)]]

\* the body of "for ev in goal_evs"
CreditGoal(acc, ev, af, lu) ==
    IF ev.player = Null \/ ev.shot.stype = NoneS
    THEN [acc EXCEPT !.raised = TRUE]
    ELSE LET tid == ev.team
             sc == [acc.score_by_team EXCEPT ![tid] = @ + 1]
         IN  [raised |-> FALSE,
              score_by_team |-> sc,
              goals_by_period_team |->
                  [acc.goals_by_period_team EXCEPT ![ev.period][tid] = @ + 1],
              running_score |-> Append(acc.running_score,
                  [time        |-> match_clock(ev),
                   player_id   |-> Str(ev.player),
                   assist_id   |-> IF Truthy(af[ev.id]) THEN Str(af[ev.id]) ELSE NoneS,
                   team_id     |-> Str(tid),
                   is_own_goal |-> ev.shot.outcome = "Own Goal",
                   is_penalty  |-> ev.shot.stype = "Penalty",
                   score       |-> Snapshot(acc, sc, lu)])]

RECURSIVE GoalLoop(_, _, _, _, _)
GoalLoop(acc, evs, i, af, lu) ==
    IF i > Len(evs) \/ acc.raised THEN acc
    ELSE GoalLoop(IF is_shot_goal(evs[i]) THEN CreditGoal(acc, evs[i], af, lu) ELSE acc,
                  evs, i + 1, af, lu)

\* score(side, sb_period)
score(g, tid, p) == g[p][tid]

\* mutant of FinalTotal: the final score taken from the two halves only
FinalTotalFromHalves(acc, tid) ==
    acc.goals_by_period_team[1][tid] + acc.goals_by_period_team[2][tid]
\* score_by_team[home_id], score_by_team[away_id] of result.final
FinalTotal(acc, tid) == acc.score_by_team[tid]

result(acc, lu) ==
    LET h == home_id(lu)
        a == away_id(lu)
        g == acc.goals_by_period_team
        per(p) == [home |-> score(g, h, p), away |-> score(g, a, p)]
    IN  [final |-> [home |-> FinalTotal(acc, h),
                    away |-> FinalTotal(acc, a),
                    winning_team_id |->
                        IF acc.score_by_team[h] # acc.score_by_team[a]
                        THEN Str(IF acc.score_by_team[h] > acc.score_by_team[a] THEN h ELSE a)
                        ELSE NoneS],
         first_half            |-> per(1),
         second_half           |-> per(2),
         first_half_extratime  |-> per(3),
         second_half_extratime |-> per(4),
         shootout              |-> per(5)]

status(evs) ==
    [is_neutral    |-> FALSE,
     has_extratime |-> \E i \in 1..Len(evs) : evs[i].period \in {3, 4},
     has_shootout  |-> \E i \in 1..Len(evs) : evs[i].period = 5]

\* sheet["teams"][side]
team_block(t) ==
    [id |-> Str(t.team_id),
     players |-> [k \in 1..Len(t.lineup) |->
                    [id         |-> Str(t.lineup[k].player_id),
                     team_id    |-> Str(t.team_id),
                     is_starter |-> t.lineup[k].starter,
                     has_played |-> t.lineup[k].played]]]


----------------------------------------------------------------------------
(* build_match_sheet: substitutions and cards *)

\* the record appended for a Substitution event that has a replacement
sub_record(ev) ==
    [in_time       |-> match_clock(ev),
     in_player_id  |-> Str(ev.substitution.replacement),
     out_time      |-> match_clock(ev),
     out_player_id |-> Str(ev.player),
     team_id       |-> Str(ev.team)]

\* mutant of SubKept: the replacement is not looked at
SubKeptAlways(ev) == ev.type = "Substitution"
\* type is Substitution and "replacement" in ev.get("substitution", {})
SubKept(ev) ==
    /\ ev.type = "Substitution"
    /\ ev.substitution.present
    /\ ev.substitution.replacement # Null

RECURSIVE SubLoop(_, _, _)
SubLoop(acc, evs, i) ==
    IF i > Len(evs) \/ acc.raised THEN acc
    ELSE LET ev == evs[i]
         IN  SubLoop(IF SubKept(ev)
                     THEN IF ev.player = Null
                          THEN [acc EXCEPT !.raised = TRUE]
                          ELSE [acc EXCEPT !.list = Append(@, sub_record(ev))]
                     ELSE acc,
                     evs, i + 1)

NoCard == [isnull |-> TRUE, typed |-> FALSE, type_name |-> NoneS,
           flat_name |-> NoneS, other |-> FALSE]

\* card_obj selected by the event's type name
card_obj(ev) ==
    CASE ev.type = "Card" -> ev.card
      [] ev.type = "Foul Committed" ->
            IF ev.foul_committed.present THEN ev.foul_committed.card ELSE NoCard
      [] ev.type = "Bad Behaviour" ->
            IF ev.bad_behaviour.present THEN ev.bad_behaviour.card ELSE NoCard
      [] OTHER -> NoCard

\* "not card_obj": None, or a dict without any key
card_falsy(c) ==
    c.isnull \/ (~c.typed /\ c.flat_name = NoneS /\ ~c.other)

raw_type(c) == IF c.typed THEN c.type_name ELSE c.flat_name

card_type(c) == Lower(IF TruthyS(raw_type(c)) THEN raw_type(c) ELSE "unknown")

card_record(ev) ==
    [time      |-> match_clock(ev),
     player_id |-> Str(ev.player),
     type      |-> card_type(card_obj(ev)),
     team_id   |-> Str(ev.team)]

RECURSIVE CardLoop(_, _, _)
CardLoop(acc, evs, i) ==
    IF i > Len(evs) THEN acc
    ELSE CardLoop(IF card_falsy(card_obj(evs[i])) THEN acc
                  ELSE Append(acc, card_record(evs[i])),
                  evs, i + 1)

----------------------------------------------------------------------------
(* build_match_sheet *)

FailedSheet == [raised |-> TRUE]

build_match_sheet(evs, lu) ==
    LET a == assist_for(evs)
        goal_raises == \E i \in 1..Len(evs) : is_goal_raises(evs[i])
        g == GoalLoop(EmptyScore, evs, 1, a.af, lu)
        subs == SubLoop([raised |-> FALSE, list |-> <<>>], evs, 1)
    IN  IF a.raised \/ goal_raises \/ g.raised \/ subs.raised
        THEN FailedSheet
        ELSE [raised |-> FALSE,
              status |-> status(evs),
              result |-> result(g, lu),
              teams  |-> [home |-> team_block(lu[1]), away |-> team_block(lu[2])],
              goals  |-> g.running_score,
              substitutions |-> subs.list,
              cards  |-> CardLoop(<<>>, evs, 1)]

----------------------------------------------------------------------------
(* build_event_cdf *)

meta_events == {"starting xi", "half start", "half end"}

\* mutant of IsMeta: the type name compared as it is spelled
IsMetaExact(ev) == ev.type \in {"Starting XI", "Half Start", "Half End"}
\* ev["type"]["name"].lower() in meta_events
IsMeta(ev) == Lower(ev.type) \in meta_events

\* (ev.get("shot") or ev.get("pass") or ev.get("carry") or {}).get("outcome", {}).get("name")
\* (a dict without any key is falsy; the model holds no carry object)
shot_truthy(ev) ==
    ev.shot.present /\ (ev.shot.outcome # NoneS \/ ev.shot.stype # NoneS
                        \/ ev.shot.key_pass_id # Null)
pass_truthy(ev) ==
    ev.pass.present /\ (ev.pass.goal_assist \/ ev.pass.assisted_shot_id # Null
                        \/ ev.pass.recipient # Null \/ ev.pass.outcome # NoneS
                        \/ ev.pass.ptype # NoneS)
outcome_name(ev) ==
    IF shot_truthy(ev) THEN ev.shot.outcome
    ELSE IF pass_truthy(ev) THEN ev.pass.outcome
    ELSE NoneS

\* start + timedelta(seconds=duration), formatted back to the clock
\* (duration is held in milliseconds; <<>> is None)
recv_time(ev) ==
    IF ev.pass.present /\ ev.duration # Null
    THEN LET c == match_clock(ev)
             ms == (c[1] * 3600 + c[2] * 60 + c[3]) * 1000 + c[4] + ev.duration
             tot == (ms \div 1000) % 86400
             rem == tot % 3600
         IN  <<tot \div 3600, rem \div 60, rem % 60, ms % 1000>>
    ELSE <<>>

event_row(ev) ==
    [event_id            |-> ev.id,
     event_time          |-> match_clock(ev),
     event_period        |-> period_name(ev.period),
     event_type          |-> Lower(ev.type),
     event_sub_type      |-> IF ev.shot.present /\ TruthyS(ev.shot.stype)
                             THEN ev.shot.stype
                             ELSE IF ev.pass.present THEN ev.pass.ptype ELSE NoneS,
     event_is_successful |-> outcome_name(ev) \notin {"Incomplete", "Out", NoneS},
     event_outcome_type  |-> outcome_name(ev),
     event_player_id     |-> ev.player,
     event_team_id       |-> ev.team,
     event_receiver_id   |-> IF ev.pass.present THEN ev.pass.recipient ELSE Null,
     event_receiver_time |-> recv_time(ev)]

RECURSIVE RowLoop(_, _, _)
RowLoop(acc, evs, i) ==
    IF i > Len(evs) THEN acc
    ELSE RowLoop(IF IsMeta(evs[i]) THEN acc
                 ELSE Append(acc, event_row(evs[i])),
                 evs, i + 1)

build_event_cdf(evs) == RowLoop(<<>>, evs, 1)

----------------------------------------------------------------------------
(* build_match_meta: whistles *)

\* ev["type"]["name"] in ("Half Start", "Half End")
IsWhistle(ev) == ev.type \in {"Half Start", "Half End"}

whistle(ev) == [type |-> Lower(ev.type), sub_type |-> NoneS, time |-> match_clock(ev)]

RECURSIVE WhistleLoop(_, _, _)
WhistleLoop(acc, evs, i) ==
    IF i > Len(evs) THEN acc
    ELSE WhistleLoop(IF IsWhistle(evs[i]) THEN Append(acc, whistle(evs[i])) ELSE acc,
                     evs, i + 1)

build_match_meta(evs, lu) ==
    [whistles |-> WhistleLoop(<<>>, evs, 1),
     teams    |-> [home |-> Str(lu[1].team_id), away |-> Str(lu[2].team_id)]]


----------------------------------------------------------------------------
(* build_graph *)

Node(kind, key) == <<kind, key>>
Lit(dt, v) == <<"lit", dt, v>>

\* A scalar enters the graph with the Python type it has in the JSON
\* document: "none", "bool", "int", "float", "str", or "clock" for the strings
\* 'HH:MM:SS.mmm' the model holds as tuples.  isinstance(v, numbers.Integral)
\* is true of a bool, isinstance(v, numbers.Real) of a bool and of an int.
IsBool(kind) == kind = "bool"
IsIntegral(kind) == kind \in {"bool", "int"}
IsReal(kind) == kind \in {"bool", "int", "float"}

\* v.endswith("Z") and "T" in v, over the strings of the model
IsDateTimeForm(kind, v) == kind = "str" /\ v \in {"2018-07-15T17:00:00Z", "TZ"}

\* lit(v, dt=None), for v that is not None; dt = NoneS stands for no datatype
lit(kind, v, dt) ==
    IF dt # NoneS THEN Lit(dt, v)
    ELSE IF IsBool(kind) THEN Lit("boolean", v)
    ELSE IF IsIntegral(kind) THEN Lit("integer", v)
    ELSE IF IsReal(kind) THEN Lit("float", v)
    ELSE IF IsDateTimeForm(kind, v) THEN Lit("dateTime", v)
    ELSE Lit("string", v)

\* add(g, s, p, v, dt): "if v is not None: g.add((s, p, lit(v, dt)))"
add(s, p, kind, v, dt) ==
    IF kind = "none" THEN {} ELSE {<<s, p, lit(kind, v, dt)>>}

\* the Python type of a clock string or None, of a string or None
ClockKind(c) == IF c = <<>> THEN "none" ELSE "clock"
StrKind(x) == IF x = NoneS THEN "none" ELSE "str"

\* "a or b" for a bool a and an absent b: a when a is true, else None
BoolOrNone(a) == IF a THEN "bool" ELSE "none"

\* id2player: the player ids registered while the two rosters are processed
id2player(sh) ==
    {sh.teams.home.players[k].id : k \in 1..Len(sh.teams.home.players)}
    \cup {sh.teams.away.players[k].id : k \in 1..Len(sh.teams.away.players)}

\* a dict built by a comprehension keeps, for a repeated key, the last record
FirstIndex(S) == IF S = {} THEN 0 ELSE CHOOSE i \in S : \A j \in S : i <= j
LastIndex(S) == IF S = {} THEN 0 ELSE CHOOSE i \in S : \A j \in S : j <= i

goal_lkp(sh, key) ==
    LastIndex({i \in 1..Len(sh.goals) :
        <<sh.goals[i].time, sh.goals[i].player_id, sh.goals[i].team_id>> = key})

sub_lkp(sh, t) ==
    LastIndex({i \in 1..Len(sh.substitutions) : sh.substitutions[i].in_time = t})

card_lkp(sh, key) ==
    LastIndex({i \in 1..Len(sh.cards) :
        <<sh.cards[i].time, sh.cards[i].player_id>> = key})

\* mutant of PlayerLink: the address is built without the lookup
PlayerLinkUnchecked(e, row, reg) ==
    IF Truthy(row.event_player_id)
    THEN [raised  |-> FALSE,
          triples |-> {<<e, "player_id", Node("player", Str(row.event_player_id))>>}]
    ELSE [raised |-> FALSE, triples |-> {}]

\* "if ev['event_player_id']: g.add((e_uri, player_id, id2player[str(...)]))"
PlayerLink(e, row, reg) ==
    IF Truthy(row.event_player_id)
    THEN [raised  |-> Str(row.event_player_id) \notin reg,
          triples |-> {<<e, "player_id", Node("player", Str(row.event_player_id))>>}]
    ELSE [raised |-> FALSE, triples |-> {}]

GoalOutcomes == {"goal", "successful"}

\* mutant of GoalJoin: the first record of a repeated key is kept
AssistOfFirst(sh, key) ==
    FirstIndex({i \in 1..Len(sh.goals) :
        <<sh.goals[i].time, sh.goals[i].player_id, sh.goals[i].team_id>> = key})
\* gd = goal_lkp.get(key)
GoalJoin(sh, key) == goal_lkp(sh, key)

\* the "Shot / Goal" block
ShotPart(e, row, sh, reg) ==
    IF row.event_type = "shot"
    THEN LET isgoal == Lower(row.event_outcome_type) \in GoalOutcomes
             key == <<row.event_time, Str(row.event_player_id), Str(row.event_team_id)>>
             gi == IF isgoal THEN GoalJoin(sh, key) ELSE 0
         IN  IF gi = 0
             THEN [raised  |-> FALSE,
                   triples |-> {<<e, "rdf:type", Node("class", "Shot")>>}
                               \cup IF isgoal
                                    THEN {<<e, "rdf:type", Node("class", "Goal")>>}
                                    ELSE {}]
             ELSE LET gd == sh.goals[gi]
                  IN  [raised  |-> TruthyS(gd.assist_id) /\ gd.assist_id \notin reg,
                       triples |->
                          {<<e, "rdf:type", Node("class", "Shot")>>,
                           <<e, "rdf:type", Node("class", "Goal")>>}
                          \cup add(e, "is_own_goal", "bool", gd.is_own_goal, NoneS)
                          \cup add(e, "is_penalty", "bool", gd.is_penalty, NoneS)
                          \cup IF TruthyS(gd.assist_id)
                               THEN {<<e, "assist_id", Node("player", gd.assist_id)>>}
                               ELSE {}]
    ELSE [raised |-> FALSE, triples |-> {}]

\* the "Pass" block: id2player.get(str(rid), core(f"player/{rid}"))
PassPart(e, row, reg) ==
    IF row.event_type = "pass"
    THEN {<<e, "rdf:type", Node("class", "Pass")>>}
         \cup (IF Truthy(row.event_receiver_id)
               THEN {<<e, "receiver_id", Node("player", Str(row.event_receiver_id))>>}
               ELSE {})
         \cup add(e, "receiver_time", ClockKind(row.event_receiver_time),
                 row.event_receiver_time, NoneS)
    ELSE {}

\* the "Substitution" block
SubPart(e, row, sh, reg) ==
    IF row.event_type = "substitution"
    THEN LET si == sub_lkp(sh, row.event_time)
         IN  IF si = 0
             THEN [raised  |-> FALSE,
                   triples |-> {<<e, "rdf:type", Node("class", "Subtitution")>>}]
             ELSE LET sd == sh.substitutions[si]
                  IN  [raised  |-> sd.out_player_id \notin reg,
                       triples |->
                          {<<e, "rdf:type", Node("class", "Subtitution")>>,
                           <<e, "out_player_id", Node("player", sd.out_player_id)>>}
                          \cup add(e, "out_time", "clock", sd.out_time, NoneS)]
    ELSE [raised |-> FALSE, triples |-> {}]

\* the "Card" block
CardPart(e, row, sh) ==
    LET ck == <<row.event_time,
                IF Truthy(row.event_player_id) THEN Str(row.event_player_id) ELSE "">>
        ci == card_lkp(sh, ck)
    IN  IF row.event_type = "card" \/ ci # 0
        THEN {<<e, "rdf:type", Node("class", "Card")>>}
             \cup IF ci # 0
                  THEN add(e, "card_type", "str", sh.cards[ci].type, NoneS)
                  ELSE {}
        ELSE {}

\* one iteration of "for ev in events"
event_part(row, sh, reg) ==
    LET e == Node("event", Str(row.event_id))
        pl == PlayerLink(e, row, reg)
        shot == ShotPart(e, row, sh, reg)
        sub == SubPart(e, row, sh, reg)
    IN  [raised  |-> pl.raised \/ shot.raised \/ sub.raised,
         triples |-> {<<e, "rdf:type", Node("class", "Event")>>,
                      <<e, "team_id", Node("team", Str(row.event_team_id))>>}
                     \cup add(e, "id", "int", row.event_id, NoneS)
                     \cup add(e, "time", "clock", row.event_time, NoneS)
                     \cup add(e, "type", "str", row.event_type, NoneS)
                     \cup add(e, "outcome_type", StrKind(row.event_outcome_type),
                             row.event_outcome_type, NoneS)
                     \cup pl.triples \cup shot.triples \cup PassPart(e, row, reg)
                     \cup sub.triples \cup CardPart(e, row, sh)]

\* the "teams & players" block
roster_part(sh) ==
    UNION {
        {<<Node("team", t.id), "rdf:type", Node("class", "Team")>>}
        \cup UNION {
            {<<Node("player", t.players[k].id), "rdf:type", Node("class", "Player")>>,
             <<Node("team", t.id), "players", Node("player", t.players[k].id)>>,
             <<Node("player", t.players[k].id), "team_id", Node("team", t.id)>>}
            : k \in 1..Len(t.players)}
        : t \in {sh.teams.home, sh.teams.away}}

\* the "Match_Status" block: val = status.get(key) or status.get(key with blank)
status_part(sh) ==
    {<<Node("match_status", "m"), "rdf:type", Node("class", "Match_Status")>>}
    \cup UNION {add(Node("match_status", "m"), k,
                    BoolOrNone(sh.status[k]), sh.status[k], NoneS) :
                k \in {"is_neutral", "has_extratime", "has_shootout"}}

FailedGraph == [raised |-> TRUE, triples |-> {}]

build_graph(sh, rws, mt) ==
    LET reg == id2player(sh)
        parts == [k \in 1..Len(rws) |-> event_part(rws[k], sh, reg)]
    IN  IF \E k \in 1..Len(rws) : parts[k].raised
        THEN FailedGraph
        ELSE [raised  |-> FALSE,
              triples |-> roster_part(sh) \cup status_part(sh)
                          \cup UNION {parts[k].triples : k \in 1..Len(rws)}]


----------------------------------------------------------------------------
(* Inputs: raw events and lineups *)

NoShot == [present |-> FALSE, outcome |-> NoneS, stype |-> NoneS, key_pass_id |-> Null]
NoPass == [present |-> FALSE, goal_assist |-> FALSE, assisted_shot_id |-> Null,
           recipient |-> Null, outcome |-> NoneS, ptype |-> NoneS]
NoSub == [present |-> FALSE, replacement |-> Null]
NoContainer == [present |-> FALSE, card |-> NoCard]

\* an event with the required top-level fields and no nested detail
Ev(type, team, player) ==
    [id |-> 0, type |-> type, team |-> team, player |-> player, period |-> 1,
     minute |-> 10, second |-> 0, frac |-> 0, duration |-> Null,
     shot |-> NoShot, pass |-> NoPass, substitution |-> NoSub,
     card |-> NoCard, foul_committed |-> NoContainer, bad_behaviour |-> NoContainer]

At(ev, minute, second, frac) ==
    [ev EXCEPT !.minute = minute, !.second = second, !.frac = frac]

Shot(team, player, period, outcome, stype, kp) ==
    [Ev("Shot", team, player) EXCEPT
        !.period = period,
        !.shot = [present |-> TRUE, outcome |-> outcome, stype |-> stype,
                  key_pass_id |-> kp]]

Pass(team, player, goal_assist, sid, recipient, outcome) ==
    [Ev("Pass", team, player) EXCEPT
        !.pass = [present |-> TRUE, goal_assist |-> goal_assist,
                  assisted_shot_id |-> sid, recipient |-> recipient,
                  outcome |-> outcome, ptype |-> NoneS]]

Substitution(team, player, replacement) ==
    [Ev("Substitution", team, player) EXCEPT
        !.substitution = [present |-> TRUE, replacement |-> replacement]]

TypedCard(name) == [isnull |-> FALSE, typed |-> TRUE, type_name |-> name,
                    flat_name |-> NoneS, other |-> FALSE]
FlatCard(name) == [isnull |-> FALSE, typed |-> FALSE, type_name |-> NoneS,
                   flat_name |-> name, other |-> FALSE]
EmptyCard == [isnull |-> FALSE, typed |-> FALSE, type_name |-> NoneS,
              flat_name |-> NoneS, other |-> FALSE]
OtherCard == [isnull |-> FALSE, typed |-> FALSE, type_name |-> NoneS,
              flat_name |-> NoneS, other |-> TRUE]

Card(team, player, c) == [Ev("Card", team, player) EXCEPT !.card = c]
Foul(team, player, c) ==
    [Ev("Foul Committed", team, player) EXCEPT
        !.foul_committed = [present |-> TRUE, card |-> c]]
BadBehaviour(team, player, c) ==
    [Ev("Bad Behaviour", team, player) EXCEPT
        !.bad_behaviour = [present |-> TRUE, card |-> c]]

\* Teams 1 and 2 play; team 3 is no team of the match.  Players 1 and 2 are
\* on team 1's roster, player 3 on team 2's; player 4 is on no roster.
Roster(t) ==
    IF t = 1
    THEN [team_id |-> 1,
          lineup |-> <<[player_id |-> 1, starter |-> TRUE, played |-> TRUE],
                       [player_id |-> 2, starter |-> FALSE, played |-> TRUE]>>]
    ELSE [team_id |-> 2,
          lineup |-> <<[player_id |-> 3, starter |-> TRUE, played |-> TRUE]>>]

Lineups == {<<Roster(1), Roster(2)>>, <<Roster(2), Roster(1)>>}

\* goals of both teams in every raw period, a goal of a third team, a miss
ScoreFamily ==
    {Shot(1, 1, p, "Goal", "Open Play", Null) : p \in RawPeriods}
    \cup {Shot(2, 3, p, "Goal", "Open Play", Null) : p \in {1, 3}}
    \cup {Shot(3, 4, 1, "Goal", "Open Play", Null),
          Shot(1, 2, 2, "Saved", "Open Play", Null)}

\* passes flagged goal_assist, key-pass targets, shots with a key pass
AssistFamily ==
    {Pass(1, 2, TRUE, sid, Null, NoneS) : sid \in {2, 3}}
    \cup {Pass(1, 1, FALSE, Null, 2, NoneS), Pass(1, 4, FALSE, Null, Null, NoneS)}
    \cup {Shot(1, 1, 1, "Goal", "Open Play", kp) : kp \in {Null, 1, 2}}
    \cup {At(Shot(1, 1, 1, "Goal", "Open Play", Null), 10, 30, 0),
          Shot(2, 3, 2, "Goal", "Penalty", Null)}

SubFamily ==
    {Substitution(1, 1, 2), Substitution(2, 3, 4), Substitution(1, 2, Null),
     At(Substitution(1, 2, 1), 70, 5, 500),
     Ev("Substitution", 1, 1),
     Substitution(1, 4, 2),
     [Pass(1, 1, FALSE, Null, Null, NoneS) EXCEPT
        !.substitution = [present |-> TRUE, replacement |-> 2]]}

CardFamily ==
    {Card(1, 1, TypedCard("Yellow Card")), Card(1, 1, EmptyCard), Card(1, 1, NoCard),
     Card(2, 3, OtherCard), Card(1, 2, TypedCard(NoneS)),
     Foul(1, 2, FlatCard("Red Card")), Ev("Foul Committed", 1, 2),
     Foul(2, Null, FlatCard("")),
     BadBehaviour(2, 3, TypedCard("Yellow Card")),
     [Pass(1, 1, FALSE, Null, Null, NoneS) EXCEPT !.card = TypedCard("Red Card")]}

AdminFamily ==
    {Ev("Starting XI", 1, Null), Ev("STARTING XI", 2, Null),
     Ev("Half Start", 1, Null), At(Ev("Half End", 2, Null), 45, 0, 0),
     At(Ev("HALF END", 1, Null), 47, 61, 250),
     Pass(1, 1, FALSE, Null, 2, NoneS), Ev("Carry", 2, 3),
     Shot(1, 2, 1, "Saved", "Open Play", Null)}

\* player references on and off the rosters
RefFamily ==
    {Pass(1, 1, FALSE, Null, 4, NoneS), Pass(1, 1, FALSE, Null, 3, "Incomplete"),
     Ev("Carry", 1, 4), Ev("Carry", 1, Null),
     Shot(1, 4, 1, "Goal", "Open Play", Null)}

\* own goals: a shot whose outcome is "Own Goal", the vendor's "Own Goal For"
\* event of the credited team, beside two ordinary goals
OwnGoalFamily ==
    {Shot(1, 1, 1, "Own Goal", "Open Play", Null),
     Shot(2, 3, 2, "Own Goal", "Open Play", Null),
     At(Ev("Own Goal For", 2, 3), 20, 0, 0),
     Shot(1, 2, 1, "Goal", "Open Play", Null),
     Shot(2, 3, 3, "Goal", "Penalty", Null)}

\* events with every required top-level field and a missing nested detail:
\* a Shot without shot object, without outcome, a goal without shot type, a
\* Pass flagged goal_assist without player, a key-pass target (Carry) without
\* player beside the shot that names it, a Pass without pass object
DetailFamily ==
    {Ev("Shot", 1, 1),
     Shot(1, 1, 1, NoneS, "Open Play", Null),
     Shot(1, 1, 1, "Goal", NoneS, Null),
     Pass(1, Null, TRUE, 2, Null, NoneS),
     Ev("Carry", 1, Null),
     Shot(1, 2, 1, "Saved", "Open Play", 1),
     Ev("Pass", 1, 1)}

\* an event with a duration (held in milliseconds)
Lasting(ev, ms) == [ev EXCEPT !.duration = ms]

\* passes with and without duration: completed (no outcome), incomplete, out
\* of play, one that ends after the full hour; a carry with a duration
PassFamily ==
    {Lasting(Pass(1, 1, FALSE, Null, 2, NoneS), 1500),
     Lasting(Pass(1, 1, FALSE, Null, 2, "Incomplete"), 800),
     Lasting(Pass(2, 3, FALSE, Null, Null, "Out"), 500),
     Pass(1, 2, FALSE, Null, 1, NoneS),
     Pass(1, 2, FALSE, Null, Null, "Incomplete"),
     Lasting(At(Pass(1, 1, FALSE, Null, 2, NoneS), 59, 59, 250), 1200),
     Lasting(Ev("Carry", 1, 1), 2000)}

Families == {ScoreFamily, AssistFamily, SubFamily, CardFamily, AdminFamily, RefFamily,
             OwnGoalFamily, DetailFamily, PassFamily}

\* ids are unique: the event at position i has id i
WithIds(s) == [i \in 1..Len(s) |-> [s[i] EXCEPT !.id = i]]

----------------------------------------------------------------------------
(* One match through the pipeline: run_single, then build_graph *)

Init ==
    /\ pc = "start"
    /\ \E fam \in Families : \E s \in BoundedSeq(fam, MaxEvents) : events = WithIds(s)
    /\ lineup \in Lineups
    /\ sheet = FailedSheet
    /\ rows = <<>>
    /\ meta = [whistles |-> <<>>]
    /\ graph = FailedGraph
    /\ label = <<>> /\ slug1 = <<>> /\ slug2 = <<>>
    /\ batch = <<>> /\ bi = 0 /\ written = {} /\ bstate = "idle"

BuildMatchSheet ==
    /\ pc = "start"
    /\ sheet' = build_match_sheet(events, lineup)
    /\ pc' = IF sheet'.raised THEN "failed" ELSE "sheet"
    /\ UNCHANGED <<events, lineup, rows, meta, graph,
                   label, slug1, slug2, batch, bi, written, bstate>>

BuildEventCdf ==
    /\ pc = "sheet"
    /\ rows' = build_event_cdf(events)
    /\ pc' = "events"
    /\ UNCHANGED <<events, lineup, sheet, meta, graph,
                   label, slug1, slug2, batch, bi, written, bstate>>

BuildMatchMeta ==
    /\ pc = "events"
    /\ meta' = build_match_meta(events, lineup)
    /\ pc' = "meta"
    /\ UNCHANGED <<events, lineup, sheet, rows, graph,
                   label, slug1, slug2, batch, bi, written, bstate>>

BuildGraph ==
    /\ pc = "meta"
    /\ graph' = build_graph(sheet, rows, meta)
    /\ pc' = IF graph'.raised THEN "graph_failed" ELSE "graph"
    /\ UNCHANGED <<events, lineup, sheet, rows, meta,
                   label, slug1, slug2, batch, bi, written, bstate>>

Next == BuildMatchSheet \/ BuildEventCdf \/ BuildMatchMeta \/ BuildGraph

Spec == Init /\ [][Next]_vars


----------------------------------------------------------------------------
(* slug: url.quote(str(text).lower().replace(" ", "_"), safe="_")         *)
(* A label is a sequence of one-character strings.                         *)

Alphabet == {"a", "A", " ", "_", ":", ".", "%", "0"}

\* characters quote() never escapes: letters, digits, "_", ".", "-", "~"
Unreserved == {"a", "A", "0", "2", "3", "5", "_", ".", "-", "~"}

lower_char(c) == IF c = "A" THEN "a" ELSE c
replace_blank(c) == IF c = " " THEN "_" ELSE c

\* mutant of quote_char: nothing is escaped
QuoteNothing(c) == <<c>>

\* "%XX" with upper-case hexadecimal digits of the character's code
quote_char(c) ==
    IF c \in Unreserved THEN <<c>>
    ELSE CASE c = ":" -> <<"%", "3", "A">>
           [] c = "%" -> <<"%", "2", "5">>
           [] c = " " -> <<"%", "2", "0">>
           [] OTHER   -> <<"%", "3", "F">>

RECURSIVE slug(_)
slug(text) ==
    IF text = <<>> THEN <<>>
    ELSE quote_char(replace_blank(lower_char(Head(text)))) \o slug(Tail(text))

SlugInit ==
    /\ pc = "label"
    /\ label \in BoundedSeq(Alphabet, MaxLabelLen)
    /\ slug1 = <<>> /\ slug2 = <<>>
    /\ events = <<>> /\ lineup = <<>> /\ sheet = FailedSheet /\ rows = <<>>
    /\ meta = [whistles |-> <<>>] /\ graph = FailedGraph
    /\ batch = <<>> /\ bi = 0 /\ written = {} /\ bstate = "idle"

SlugOnce ==
    /\ pc = "label"
    /\ slug1' = slug(label)
    /\ pc' = "slug1"
    /\ UNCHANGED <<events, lineup, sheet, rows, meta, graph,
                   label, slug2, batch, bi, written, bstate>>

SlugTwice ==
    /\ pc = "slug1"
    /\ slug2' = slug(slug1)
    /\ pc' = "slug2"
    /\ UNCHANGED <<events, lineup, sheet, rows, meta, graph,
                   label, slug1, batch, bi, written, bstate>>

SlugNext == SlugOnce \/ SlugTwice

SpecSlug == SlugInit /\ [][SlugNext]_vars

----------------------------------------------------------------------------
(* Batch mode: run_batch's loop over the matches of a matches file, and    *)
(* the graph builder's loop over the match directories.                    *)

BatchLineup == <<Roster(1), Roster(2)>>

\* a match that converts, one whose normalization raises (a Shot without a
\* shot object), one whose graph construction raises (a player on no roster)
GoodEvents == WithIds(<<Shot(1, 1, 1, "Goal", "Open Play", Null)>>)
BadSheetEvents == WithIds(<<Ev("Shot", 1, 1)>>)
BadGraphEvents == WithIds(<<Ev("Carry", 1, 4)>>)

MatchKinds ==
    [files : BOOLEAN, events : {GoodEvents, BadSheetEvents, BadGraphEvents}]

\* run_single(ev_p, li_p, ...) raises
run_single_raises(m) == build_match_sheet(m.events, BatchLineup).raised

\* the three CDF files of a match directory exist: the match's files were
\* there and the normalizer wrote them
cdf_files_exist(m) == m.files /\ ~run_single_raises(m)

\* build_graph(sheet, events, meta) raises
build_graph_raises(m) ==
    build_graph(build_match_sheet(m.events, BatchLineup),
                build_event_cdf(m.events),
                build_match_meta(m.events, BatchLineup)).raised

InputsPresent(mode, m) == IF mode = "normalize" THEN m.files ELSE cdf_files_exist(m)
Raises(mode, m) ==
    IF mode = "normalize" THEN run_single_raises(m) ELSE build_graph_raises(m)

\* mutant of Propagate: the exception is caught and the loop goes on
Swallow(i) == [bstate |-> "running", bi |-> i + 1]
\* an exception leaves the loop: neither loop has a handler
Propagate(i) == [bstate |-> "crashed", bi |-> i]

BatchInit ==
    /\ batch \in [mode : {"normalize", "graph"},
                  matches : BoundedSeq(MatchKinds, MaxMatches)]
    /\ bi = 1 /\ written = {} /\ bstate = "running"
    /\ pc = "batch"
    /\ events = <<>> /\ lineup = <<>> /\ sheet = FailedSheet /\ rows = <<>>
    /\ meta = [whistles |-> <<>>] /\ graph = FailedGraph
    /\ label = <<>> /\ slug1 = <<>> /\ slug2 = <<>>

\* one iteration of the loop
ProcessMatch ==
    /\ bstate = "running"
    /\ bi <= Len(batch.matches)
    /\ LET m == batch.matches[bi]
       IN  IF ~InputsPresent(batch.mode, m)
           THEN /\ bi' = bi + 1
                /\ UNCHANGED <<written, bstate>>
           ELSE IF Raises(batch.mode, m)
           THEN /\ bi' = Propagate(bi).bi
                /\ bstate' = Propagate(bi).bstate
                /\ UNCHANGED written
           ELSE /\ written' = written \cup {bi}
                /\ bi' = bi + 1
                /\ UNCHANGED bstate
    /\ UNCHANGED <<pc, events, lineup, sheet, rows, meta, graph,
                   label, slug1, slug2, batch>>

\* the loop ends
FinishBatch ==
    /\ bstate = "running"
    /\ bi > Len(batch.matches)
    /\ bstate' = "done"
    /\ UNCHANGED <<pc, events, lineup, sheet, rows, meta, graph,
                   label, slug1, slug2, batch, bi, written>>

BatchNext == ProcessMatch \/ FinishBatch

SpecBatch == BatchInit /\ [][BatchNext]_vars


----------------------------------------------------------------------------
(* Properties of the match sheet *)

SheetBuilt == pc \in {"sheet", "events", "meta", "graph", "graph_failed"}

\* the k-th smallest element of a set of positions
NthIndex(S, k) == CHOOSE i \in S : Cardinality({j \in S : j <= i}) = k

\* positions of the goal-scoring shots among the raw events
GoalPositions == {i \in 1..Len(events) : is_shot_goal(events[i])}

FivePeriodSum(side) ==
    sheet.result.first_half[side] + sheet.result.second_half[side]
    + sheet.result.first_half_extratime[side]
    + sheet.result.second_half_extratime[side] + sheet.result.shootout[side]

\* goals credited to a team in a raw period that has no bucket in the result
OtherPeriodGoals(tid) ==
    Cardinality({i \in GoalPositions :
        events[i].team = tid /\ events[i].period \notin 1..5})

(* C1 as stated: for every match, result.final.home is the sum of the home
   scores of first_half, second_half, first_half_extratime,
   second_half_extratime and shootout, and likewise for away. *)
C1_FinalIsSumOfFivePeriods ==
    SheetBuilt =>
        /\ sheet.result.final.home = FivePeriodSum("home")
        /\ sheet.result.final.away = FivePeriodSum("away")

(* C1 amended: result.final.home is the sum of the home scores of the five
   periods plus the number of home goals whose raw period number is outside
   1..5 (such a goal has no bucket in the result), and likewise for away; so
   the final score equals the five-period sum whenever every goal's period
   number is in 1..5. *)
C1_FinalIsSumPlusOtherPeriods ==
    SheetBuilt =>
        /\ sheet.result.final.home
             = FivePeriodSum("home") + OtherPeriodGoals(home_id(lineup))
        /\ sheet.result.final.away
             = FivePeriodSum("away") + OtherPeriodGoals(away_id(lineup))

\* home goals in the first half and in the shootout, an away goal in extra time
C1_Witness ==
    /\ pc = "sheet"
    /\ sheet.result.final.home = 2
    /\ sheet.result.first_half.home = 1
    /\ sheet.result.shootout.home = 1
    /\ sheet.result.final.away = 1
    /\ sheet.result.first_half_extratime.away = 1

(* C2: the goal list holds the goal-scoring shots in raw event order; the
   k-th record's score snapshot is the number of goals credited to the home
   team and to the away team among the first k goals; each successive
   record's totals are >= the previous record's, and exactly the scoring
   side grows by 1 when the scoring team is home or away. *)
C2_RunningScore ==
    SheetBuilt =>
        /\ Len(sheet.goals) = Cardinality(GoalPositions)
        /\ \A k \in 1..Len(sheet.goals) :
            LET ev == events[NthIndex(GoalPositions, k)]
                credited(tid) ==
                    Cardinality({j \in 1..k :
                        events[NthIndex(GoalPositions, j)].team = tid})
                prev == IF k = 1 THEN [home |-> 0, away |-> 0]
                        ELSE sheet.goals[k - 1].score
                cur == sheet.goals[k].score
            IN  /\ sheet.goals[k].time = match_clock(ev)
                /\ sheet.goals[k].player_id = Str(ev.player)
                /\ sheet.goals[k].team_id = Str(ev.team)
                /\ cur.home = credited(home_id(lineup))
                /\ cur.away = credited(away_id(lineup))
                /\ cur.home >= prev.home /\ cur.away >= prev.away
                /\ ev.team = home_id(lineup) =>
                        cur.home = prev.home + 1 /\ cur.away = prev.away
                /\ ev.team = away_id(lineup) =>
                        cur.away = prev.away + 1 /\ cur.home = prev.home

\* three goals: both sides have scored, and the last snapshot is 2:1
C2_Witness ==
    /\ pc = "sheet"
    /\ Len(sheet.goals) = 3
    /\ sheet.goals[1].score = [home |-> 0, away |-> 1]
    /\ sheet.goals[3].score = [home |-> 2, away |-> 1]


----------------------------------------------------------------------------
(* Properties of the graph *)

GraphDone == pc \in {"graph", "graph_failed"}

PlayerClass == Node("class", "Player")

\* the node is a player registered from a team roster
Registered(n) == <<n, "rdf:type", PlayerClass>> \in graph.triples

\* the node is a stub: an address with no attributes
Stub(n) == \A t \in graph.triples : t[1] # n

OnRoster(id) ==
    \E t \in 1..2 : \E k \in 1..Len(lineup[t].lineup) :
        lineup[t].lineup[k].player_id = id

EventNode(row) == Node("event", Str(row.event_id))

\* the references build_graph resolves through id2player[...]: the acting
\* player of a row, the assist of the goal record a goal row joins, the
\* outgoing player of the substitution record a substitution row joins
JoinedGoal(row) ==
    IF row.event_type = "shot" /\ Lower(row.event_outcome_type) \in {"goal", "successful"}
    THEN LastIndex({i \in 1..Len(sheet.goals) :
            /\ sheet.goals[i].time = row.event_time
            /\ sheet.goals[i].player_id = Str(row.event_player_id)
            /\ sheet.goals[i].team_id = Str(row.event_team_id)})
    ELSE 0

JoinedSub(row) ==
    IF row.event_type = "substitution"
    THEN LastIndex({i \in 1..Len(sheet.substitutions) :
            sheet.substitutions[i].in_time = row.event_time})
    ELSE 0

RosterStrings == {Str(id) : id \in {x \in 1..9 : OnRoster(x)}}

IndexedRefsOnRoster ==
    \A k \in 1..Len(rows) :
        /\ Truthy(rows[k].event_player_id) => OnRoster(rows[k].event_player_id)
        /\ JoinedGoal(rows[k]) # 0 =>
              LET a == sheet.goals[JoinedGoal(rows[k])].assist_id
              IN  TruthyS(a) => a \in RosterStrings
        /\ JoinedSub(rows[k]) # 0 =>
              sheet.substitutions[JoinedSub(rows[k])].out_player_id \in RosterStrings

RefPredicates == {"player_id", "assist_id", "out_player_id", "receiver_id"}

(* C3 as stated: for every flat event that carries a player reference,
   build_graph completes and the reference points to a player node that was
   registered from a roster or synthesized as a stub; a referenced player
   absent from both rosters never makes build_graph fail. *)
C3_NeverFailsNeverDangles ==
    GraphDone =>
        /\ ~graph.raised
        /\ \A t \in graph.triples :
              t[2] \in RefPredicates => Registered(t[3]) \/ Stub(t[3])

(* C3 amended: when build_graph completes, every acting-player, assist and
   outgoing-player reference points to a player node registered from a
   roster, and every pass-receiver reference to a registered node or to a
   stub; a pass receiver absent from both rosters never makes build_graph
   fail, but an acting player, a joined goal's assist provider or a joined
   substitution's outgoing player absent from both rosters makes build_graph
   fail with a lookup error (and only that does). *)
C3_ResolvedOrLookupError ==
    GraphDone =>
        /\ graph.raised <=> ~IndexedRefsOnRoster
        /\ ~graph.raised =>
            /\ \A k \in 1..Len(rows) :
                  /\ Truthy(rows[k].event_player_id) =>
                        <<EventNode(rows[k]), "player_id",
                          Node("player", Str(rows[k].event_player_id))>> \in graph.triples
                  /\ (rows[k].event_type = "pass" /\ Truthy(rows[k].event_receiver_id)) =>
                        <<EventNode(rows[k]), "receiver_id",
                          Node("player", Str(rows[k].event_receiver_id))>> \in graph.triples
            /\ \A t \in graph.triples :
                  /\ t[2] \in {"player_id", "assist_id", "out_player_id"} =>
                        Registered(t[3])
                  /\ t[2] = "receiver_id" => Registered(t[3]) \/ Stub(t[3])

\* a completed graph in which a pass points to the stub of player 4
C3_Witness ==
    /\ pc = "graph"
    /\ \E t \in graph.triples :
          t[2] = "receiver_id" /\ t[3] = Node("player", "4") /\ Stub(t[3])
    /\ \E t \in graph.triples : t[2] = "player_id"

\* the goal records whose (time, player_id, team_id) is the row's key
GoalRecordsFor(row) ==
    {i \in 1..Len(sheet.goals) :
        /\ sheet.goals[i].time = row.event_time
        /\ sheet.goals[i].player_id = Str(row.event_player_id)
        /\ sheet.goals[i].team_id = Str(row.event_team_id)}

IsGoalRow(row) == row.event_type = "shot" /\ row.event_outcome_type = "Goal"

HasTag(row, tag) ==
    <<EventNode(row), "rdf:type", Node("class", tag)>> \in graph.triples

AssistsOf(row) ==
    {t[3][2] : t \in {u \in graph.triples : u[1] = EventNode(row) /\ u[2] = "assist_id"}}

HasGoalFlags(row) ==
    \E t \in graph.triples :
        t[1] = EventNode(row) /\ t[2] \in {"is_own_goal", "is_penalty"}

(* C4 as stated: a shot row with outcome Goal gets the Shot and the Goal
   tag; it carries an assist relationship to player P iff the goal list
   holds a record with the row's (time, player, team) whose assist_id is P;
   with no matching record it carries no assist and no own-goal/penalty
   flag. *)
C4_AssistIffSomeRecord ==
    pc = "graph" =>
        \A k \in 1..Len(rows) : IsGoalRow(rows[k]) =>
            /\ HasTag(rows[k], "Shot") /\ HasTag(rows[k], "Goal")
            /\ AssistsOf(rows[k]) =
                  {sheet.goals[i].assist_id : i \in
                      {j \in GoalRecordsFor(rows[k]) : TruthyS(sheet.goals[j].assist_id)}}
            /\ GoalRecordsFor(rows[k]) = {} => ~HasGoalFlags(rows[k])

(* C4 amended: in a graph build_graph completes, a shot row with outcome
   Goal gets the Shot and the Goal tag; it carries an assist relationship to
   player P iff the LAST goal record with the row's (time, player, team) has
   assist_id P (the lookup table keeps one record per key, the last); with
   no matching record it carries no assist and no own-goal/penalty flag. *)
C4_AssistIffLastRecord ==
    pc = "graph" =>
        \A k \in 1..Len(rows) : IsGoalRow(rows[k]) =>
            LET recs == GoalRecordsFor(rows[k])
                last == LastIndex(recs)
            IN  /\ HasTag(rows[k], "Shot") /\ HasTag(rows[k], "Goal")
                /\ AssistsOf(rows[k]) =
                      IF recs # {} /\ TruthyS(sheet.goals[last].assist_id)
                      THEN {sheet.goals[last].assist_id}
                      ELSE {}
                /\ recs = {} => ~HasGoalFlags(rows[k])
                /\ recs # {} => HasGoalFlags(rows[k])

\* two goal records share a key, the first has an assist, the last another
\* value, and the graph is complete
C4_Witness ==
    /\ pc = "graph"
    /\ \E k \in 1..Len(rows) :
          /\ IsGoalRow(rows[k])
          /\ Cardinality(GoalRecordsFor(rows[k])) = 2
          /\ AssistsOf(rows[k]) = {"2"}
          /\ \E i \in GoalRecordsFor(rows[k]) : sheet.goals[i].assist_id # "2"


----------------------------------------------------------------------------
(* Properties of substitutions, cards and assists in the match sheet *)

\* positions of the Substitution events that carry a replacement
SubPositions ==
    {i \in 1..Len(events) :
        /\ events[i].type = "Substitution"
        /\ events[i].substitution.present
        /\ events[i].substitution.replacement # Null}

(* C5: a Substitution event without a replacement contributes no entry to
   the substitution list; each Substitution event with a replacement
   contributes exactly one entry, in raw event order, whose out_player_id is
   the acting player of that event, whose in_player_id is the replacement's
   id and whose in_time and out_time are both that event's match clock; no
   event of another type contributes an entry. *)
C5_Substitutions ==
    SheetBuilt =>
        /\ Len(sheet.substitutions) = Cardinality(SubPositions)
        /\ \A k \in 1..Len(sheet.substitutions) :
            LET ev == events[NthIndex(SubPositions, k)]
                rec == sheet.substitutions[k]
            IN  /\ rec.out_player_id = Str(ev.player)
                /\ rec.in_player_id = Str(ev.substitution.replacement)
                /\ rec.in_time = match_clock(ev)
                /\ rec.out_time = match_clock(ev)

\* a substitution without a replacement, one of another minute with one, and
\* an event of another type that carries a substitution object
C5_Witness ==
    /\ pc = "sheet"
    /\ Len(events) = 3
    /\ events[1].type = "Substitution" /\ events[1].substitution.replacement = Null
    /\ events[2].type = "Substitution" /\ events[2].minute = 70
    /\ events[3].type = "Pass" /\ events[3].substitution.present
    /\ Len(sheet.substitutions) = 1
    /\ sheet.substitutions[1].in_time = <<1, 10, 5, 500>>

\* the nested card object of a card-bearing event type, when the key holds one
NestedCard(ev) ==
    CASE ev.type = "Card" -> ev.card
      [] ev.type = "Foul Committed" /\ ev.foul_committed.present -> ev.foul_committed.card
      [] ev.type = "Bad Behaviour" /\ ev.bad_behaviour.present -> ev.bad_behaviour.card
      [] OTHER -> NoCard

\* positions of the events whose nested card object exists
CardPositions == {i \in 1..Len(events) : ~NestedCard(events[i]).isnull}

ResolvableName(c) ==
    IF c.typed /\ TruthyS(c.type_name) THEN c.type_name
    ELSE IF ~c.typed /\ TruthyS(c.flat_name) THEN c.flat_name
    ELSE NoneS

LowerCardName(n) ==
    CASE n = "Yellow Card" -> "yellow card"
      [] n = "Red Card" -> "red card"
      [] OTHER -> "unknown"

(* C6: every Card, Foul Committed or Bad Behaviour event whose nested card
   object exists yields exactly one card record, whose type is the lowercase
   of the card's type name (type.name or the flat name, whichever shape is
   present) and "unknown" when the object carries no resolvable type name,
   including when the card object has no fields at all. *)
C6_OneRecordPerCardObject ==
    SheetBuilt =>
        /\ Len(sheet.cards) = Cardinality(CardPositions)
        /\ \A k \in 1..Len(sheet.cards) :
              k <= Cardinality(CardPositions) =>
                sheet.cards[k].type =
                    LowerCardName(ResolvableName(
                        NestedCard(events[NthIndex(CardPositions, k)])))

\* positions of the passes flagged goal_assist that name the shot with id sid
AssistingPasses(sid) ==
    {i \in 1..Len(events) :
        /\ events[i].type = "Pass" /\ events[i].pass.present
        /\ events[i].pass.goal_assist
        /\ events[i].pass.assisted_shot_id = sid}

(* C9: the pass-side annotation takes priority: when a goal-scoring shot S
   is named as assisted_shot_id by a pass flagged goal_assist made by player
   A, the goal record for S has assist_id = A, even if S carries a
   key_pass_id that resolves to an event by another player; the key-pass
   fallback sets the assist only for shots without an assist from the first
   pass. *)
C9_PassSidePriority ==
    SheetBuilt =>
        \A k \in 1..Len(sheet.goals) :
            LET S == events[NthIndex(GoalPositions, k)]
                passes == AssistingPasses(S.id)
            IN  passes # {} =>
                    sheet.goals[k].assist_id = Str(events[LastIndex(passes)].player)

----------------------------------------------------------------------------
(* Properties of the flat event list and the whistles *)

RowsBuilt == pc \in {"events", "meta", "graph", "graph_failed"}
MetaBuilt == pc \in {"meta", "graph", "graph_failed"}

\* the spellings, among the type names of the model, that equal Starting XI,
\* Half Start or Half End when letter case is ignored
AdminSpellings ==
    {"Starting XI", "STARTING XI", "Half Start", "Half End", "HALF END"}

KeptPositions == {i \in 1..Len(events) : events[i].type \notin AdminSpellings}

WhistlePositions ==
    {i \in 1..Len(events) : events[i].type \in {"Half Start", "Half End"}}

(* C10: the flat event list is the subsequence of the raw events left after
   removing the events whose type is Starting XI, Half Start or Half End
   (letter case ignored): one row per retained event, in raw order, whose
   event_id is the raw event's id; each removed event named Half Start or
   Half End still produces a whistle record in build_match_meta. *)
C10_FlatEventsAndWhistles ==
    /\ RowsBuilt =>
        /\ Len(rows) = Cardinality(KeptPositions)
        /\ \A k \in 1..Len(rows) :
              rows[k].event_id = events[NthIndex(KeptPositions, k)].id
    /\ MetaBuilt =>
        /\ WhistlePositions \cap KeptPositions = {}
        /\ Len(meta.whistles) = Cardinality(WhistlePositions)
        /\ \A k \in 1..Len(meta.whistles) :
              LET ev == events[NthIndex(WhistlePositions, k)]
              IN  /\ meta.whistles[k].time = match_clock(ev)
                  /\ meta.whistles[k].type
                        = (IF ev.type = "Half Start" THEN "half start" ELSE "half end")

\* a Half Start and an upper-case HALF END are removed, the pass between them
\* is the only row, and the Half Start has its whistle
C10_Witness ==
    /\ pc = "meta"
    /\ Len(events) = 3
    /\ events[1].type = "Half Start"
    /\ events[2].type = "Pass"
    /\ events[3].type = "HALF END"
    /\ Len(rows) = 1 /\ rows[1].event_id = 2
    /\ Len(meta.whistles) = 1


----------------------------------------------------------------------------
(* Properties of slug *)

\* the characters of a label that slug leaves unescaped: letters, digits,
\* "_", ".", "-", "~", and the blank (replaced by "_" before quoting)
SlugSafe == Unreserved \cup {" "}

AllSlugSafe(text) == \A i \in 1..Len(text) : text[i] \in SlugSafe

(* C7 as stated: slug(slug(x)) = slug(x) for every free-text label x,
   including labels with characters that get URL-escaped, such as the ':' of
   a whistle time. *)
C7_SlugIdempotent == pc = "slug2" => slug2 = slug1

(* C7 amended: slug(slug(x)) = slug(x) exactly for the labels made only of
   letters, digits, blanks, '_', '.', '-' and '~'; a label with any other
   character (such as the ':' of a whistle time 'HH:MM:SS.mmm') gets a '%'
   escape that the second slug escapes again, so slug(slug(x)) # slug(x). *)
C7_SlugIdempotentIffNothingEscaped ==
    pc = "slug2" => (slug2 = slug1 <=> AllSlugSafe(label))

\* a label with an upper-case letter, a blank and a '.', slugged twice
C7_Witness ==
    /\ pc = "slug2"
    /\ label = <<"A", " ", ".">>
    /\ slug1 = <<"a", "_", ".">>
    /\ slug2 = slug1

----------------------------------------------------------------------------
(* Properties of batch mode *)

BatchEnded == bstate \in {"done", "crashed"}

\* the match at position i has its inputs and its processing raises
Fails(i) ==
    /\ InputsPresent(batch.mode, batch.matches[i])
    /\ Raises(batch.mode, batch.matches[i])

\* the match at position i has its inputs and its processing does not raise
Convertible(i) ==
    /\ InputsPresent(batch.mode, batch.matches[i])
    /\ ~Raises(batch.mode, batch.matches[i])

(* C8 as stated: in batch mode a match whose processing throws does not
   prevent the subsequent matches from being processed: each match that
   comes after a failing one and has all its input files present is still
   converted and its output written. *)
C8_FailureDoesNotStopBatch ==
    BatchEnded =>
        \A j \in 1..Len(batch.matches) :
            (Convertible(j) /\ \E i \in 1..(j - 1) : Fails(i)) => j \in written

(* C8 amended: in batch mode a match whose input files are missing is
   skipped and the matches after it are still processed, but the first match
   whose processing throws ends the batch: the exception leaves the loop, the
   matches before it that have their files are converted and written, and no
   match after it is processed. *)
C8_FirstFailureEndsBatch ==
    BatchEnded =>
        /\ written = {j \in 1..Len(batch.matches) :
                        Convertible(j) /\ \A i \in 1..(j - 1) : ~Fails(i)}
        /\ bstate = "crashed" <=> \E i \in 1..Len(batch.matches) : Fails(i)

\* a match without files, a converted match, a match that throws: the batch
\* has ended, the second match is written
C8_Witness ==
    /\ bstate = "crashed"
    /\ Len(batch.matches) = 3
    /\ ~batch.matches[1].files
    /\ written = {2}
    /\ bi = 3


----------------------------------------------------------------------------
(* Properties of own goals *)

\* an own-goal event: a shot whose outcome is "Own Goal" (the name the goal
\* record's flag is computed from), or the vendor's "Own Goal For" event
IsOwnGoal(ev) ==
    \/ ev.type = "Shot" /\ ev.shot.present /\ ev.shot.outcome = "Own Goal"
    \/ ev.type = "Own Goal For"

OwnGoalPositions == {i \in 1..Len(events) : IsOwnGoal(events[i])}

\* goals and own goals credited to a team
CreditedTo(tid) ==
    Cardinality({i \in GoalPositions \cup OwnGoalPositions : events[i].team = tid})

(* C11: an own goal still counts: every own-goal event appears in the goal
   list as a record of the credited team whose is_own_goal flag is true, and
   the final score of the home and of the away team counts the goals and the
   own goals credited to it. *)
C11_OwnGoalCounts ==
    SheetBuilt =>
        /\ \A i \in OwnGoalPositions :
              \E k \in 1..Len(sheet.goals) :
                  /\ sheet.goals[k].is_own_goal
                  /\ sheet.goals[k].time = match_clock(events[i])
                  /\ sheet.goals[k].team_id = Str(events[i].team)
        /\ sheet.result.final.home = CreditedTo(home_id(lineup))
        /\ sheet.result.final.away = CreditedTo(away_id(lineup))


----------------------------------------------------------------------------
(* Properties of missing nested detail *)

(* C12: normalization degrades gracefully on missing optional nested detail:
   for raw events that have all required top-level fields (id, type, team,
   period: every event of the model) build_match_sheet completes without
   error, and build_event_cdf gives every retained event a row whose fields
   for the missing detail are null. *)
C12_MissingDetailDegrades ==
    /\ pc # "failed"
    /\ RowsBuilt =>
          /\ Len(rows) = Cardinality(KeptPositions)
          /\ \A k \in 1..Len(rows) :
                LET ev == events[NthIndex(KeptPositions, k)]
                IN  /\ ev.player = Null => rows[k].event_player_id = Null
                    /\ (~ev.shot.present /\ ~ev.pass.present) =>
                          /\ rows[k].event_outcome_type = NoneS
                          /\ rows[k].event_sub_type = NoneS
                          /\ rows[k].event_receiver_id = Null

----------------------------------------------------------------------------
(* Properties of substitutions in the graph *)

\* the objects a node carries under a predicate
ObjectsOf(n, pred) == {t[3] : t \in {u \in graph.triples : u[1] = n /\ u[2] = pred}}

(* C13: in a completed graph, for every substitution raw event that carries
   a replacement, the node of that event has one out_player_id relationship,
   to the node of that same event's acting (outgoing) player, and one
   out_time, that event's time; also when substitutions of the match share
   the same match-clock time. *)
C13_SubstitutionJoinsOwnRecord ==
    pc = "graph" =>
        \A i \in SubPositions :
            LET e == Node("event", Str(events[i].id))
            IN  /\ ObjectsOf(e, "out_player_id")
                      = {Node("player", Str(events[i].player))}
                /\ ObjectsOf(e, "out_time") = {Lit("string", match_clock(events[i]))}

----------------------------------------------------------------------------
(* Properties of the pass receiver *)

\* a completed pass (the vendor gives a completed pass no outcome) whose
\* duration is known
CompletedPassWithDuration(ev) ==
    /\ ev.type = "Pass" /\ ev.pass.present
    /\ ev.pass.outcome = NoneS
    /\ ev.duration # Null

(* C14: in the flat event list a row has a non-null event_receiver_time only
   if its source raw event is a completed pass with a known duration: no row
   of an incomplete or out-of-play pass, and no row of a non-pass event,
   carries a receiver time. *)
C14_ReceiverTimeOnlyForCompletedPass ==
    RowsBuilt =>
        \A k \in 1..Len(rows) :
            rows[k].event_receiver_time # <<>> =>
                CompletedPassWithDuration(events[NthIndex(KeptPositions, k)])

----------------------------------------------------------------------------
(* Properties of the literals of the graph *)

StatusFlags == {"is_neutral", "has_extratime", "has_shootout"}

\* the scalars of the flat events and of the joined goal records are each
\* attached as one literal: the integer id as an integer, the strings as
\* strings, the booleans of a goal record as booleans, a null outcome not
EventScalarsTyped ==
    \A k \in 1..Len(rows) :
        LET e == EventNode(rows[k])
            gi == JoinedGoal(rows[k])
        IN  /\ ObjectsOf(e, "id") = {Lit("integer", rows[k].event_id)}
            /\ ObjectsOf(e, "time") = {Lit("string", rows[k].event_time)}
            /\ ObjectsOf(e, "type") = {Lit("string", rows[k].event_type)}
            /\ ObjectsOf(e, "outcome_type")
                  = IF rows[k].event_outcome_type = NoneS THEN {}
                    ELSE {Lit("string", rows[k].event_outcome_type)}
            /\ gi # 0 =>
                  /\ ObjectsOf(e, "is_own_goal")
                        = {Lit("boolean", sheet.goals[gi].is_own_goal)}
                  /\ ObjectsOf(e, "is_penalty")
                        = {Lit("boolean", sheet.goals[gi].is_penalty)}

(* C15: in a completed graph every non-null scalar is attached as exactly
   one literal typed by the priority order boolean, integer, float,
   date-time, string: a boolean is never typed as an integer, and each of the
   three match-status flags is attached to the Match_Status node as a
   boolean literal whether its value is true or false. *)
C15_EveryScalarAttached ==
    pc = "graph" =>
        /\ EventScalarsTyped
        /\ \A k \in StatusFlags :
              ObjectsOf(Node("match_status", "m"), k) = {Lit("boolean", sheet.status[k])}

====
